---- MODULE Spec2Model ----
(***************************************************************************)
(* Model of the Telegram webhook of src/app.py: update deduplication, the  *)
(* per-chat sender session, send_message_with_retry and the /checkemails   *)
(* fetch -> analyze -> send -> save pipeline.                              *)
(*                                                                         *)
(* Flask serves every request on its own worker; the workers share the     *)
(* module globals processed_updates and user_sender_names without a lock.  *)
(* One action is one access to a shared global, or one call of an external *)
(* collaborator (Telegram, Gmail, OpenRouter, Sheets), so every            *)
(* interleaving of the workers at those points is explored.                *)
(***************************************************************************)
EXTENDS Integers, Sequences, FiniteSets, TLC

\* ------------------------------------------------------------- bounds
NumWorkers == 2        \* concurrent request workers
MaxUpdates == 2        \* webhook requests received in one behaviour
MaxUpdateId == 2       \* update ids are 1..MaxUpdateId
NumChats == 2          \* chat ids are 1..NumChats
PlanLen == 6           \* length of a scripted send stub
MidUpdates == 3        \* requests received after request 0 in SpecMid

\* ------------------------------------------------- program constants
max_retries == 5       \* send_message_with_retry(max_retries=5)
maxResults == 3        \* messages().list(maxResults=3)

Workers == 1..NumWorkers
UpdateIds == 1..MaxUpdateId
Chats == 1..NumChats

\* An update without "update_id", and a message without "text".
NoId == 0
NoText == <<"<no text>">>

\* ---------------------------------------------------------------- text
\* A text is a sequence of tokens: " " is whitespace, "/" the command
\* prefix, any other token a run of ordinary characters.
SP == " "
RawTexts ==
  { <<"/", "start">>, <<"/", "listsenders">>, <<"/", "checkemails">>,
    <<"/", "help">>, <<"alice">>, <<SP, "bob", SP>> }

RECURSIVE LStrip(_)
LStrip(t) == IF t # <<>> /\ Head(t) = SP THEN LStrip(Tail(t)) ELSE t

RECURSIVE RStrip(_)
RStrip(t) ==
  IF t # <<>> /\ t[Len(t)] = SP THEN RStrip(SubSeq(t, 1, Len(t) - 1)) ELSE t

\* str.strip()
Strip(t) == RStrip(LStrip(t))

\* text.startswith("/")
StartsWithSlash(t) == t # <<>> /\ Head(t) = "/"

START == <<"/", "start">>
LISTSENDERS == <<"/", "listsenders">>
CHECKEMAILS == <<"/", "checkemails">>

\* ------------------------------------------------------------ messages
\* Every entry of a chat's log has the same fields: inv is the serial
\* number of the request that caused it, kind the message (or "persist"
\* for a row appended to the sheet), n an email index or a count, text a
\* filter or an error reason.
Entry(s, k, n, t) == [inv |-> s, kind |-> k, n |-> n, text |-> t]
Msg(k, n, t) == [kind |-> k, n |-> n, text |-> t]
NoMsg == Msg("none", 0, <<>>)

Transient == {"TimedOut", "NetworkError"}
Outcomes == {"ok", "TimedOut", "NetworkError", "Other"}

\* -------------------------------------------------------------- state
VARIABLES
  processed_updates,   \* the set processed_updates
  user_sender_names,   \* the dict user_sender_names: chat_id -> sender
  inv,                 \* per worker: the request it serves, and its locals
  log,                 \* per chat: messages delivered and rows persisted
  received,            \* requests received so far
  handled,             \* update ids of requests that passed the dedup and returned
  plan                 \* per worker: scripted outcomes of the send stub, <<>> = unscripted

vars == <<processed_updates, user_sender_names, inv, log, received, handled, plan>>

\* serial numbers the requests in the order they arrive; raw is the text
\* as received, text the text the handler works with; dup says that the
\* dedup skipped the request; replay, that its update id had been handled
\* by a request that had returned when it arrived; alone, that no other
\* request was being served when it arrived.
Idle ==
  [ pc |-> "idle", serial |-> 0, update_id |-> NoId, chat_id |-> 1,
    text |-> NoText, raw |-> NoText,
    dup |-> FALSE, replay |-> FALSE, alone |-> TRUE,
    site |-> "none", msg |-> NoMsg, attempt |-> 0, delays |-> <<>>,
    calls |-> 0, result |-> "none",
    sender_name |-> <<>>, emails |-> 0, idx |-> 0,
    fetchCalls |-> 0, analyzeCalls |-> 0, resp |-> "none" ]

Init ==
  /\ processed_updates = {}
  /\ user_sender_names = [c \in {} |-> <<>>]
  /\ inv = [p \in Workers |-> Idle]
  /\ log = [c \in Chats |-> <<>>]
  /\ received = 0
  /\ handled = {}
  /\ plan = [p \in Workers |-> <<>>]

\* dict.pop(chat_id, None)
Pop(d, c) == [k \in DOMAIN d \ {c} |-> d[k]]

\* d[chat_id] = v
Put(d, c, v) == [k \in DOMAIN d \cup {c} |-> IF k = c THEN v ELSE d[k]]

\* ------------------------------------------------------------- helpers
\* The handler returns: "OK", or Flask's 500 for an exception that left it.
Return(r, resp) == [r EXCEPT !.pc = "done", !.resp = resp]

\* Entry of send_message_with_retry(bot, chat_id, text) called at `site`.
BeginSend(r, site, m) ==
  [r EXCEPT !.pc = "send", !.site = site, !.msg = m, !.attempt = 0,
            !.delays = <<>>, !.calls = 0, !.result = "none"]

ErrorMsg(reason) == Msg("error", 0, <<reason>>)

\* Where the handler goes on after send_message_with_retry returned.
OnSent(r) ==
  LET r1 == [r EXCEPT !.result = "ok"] IN
  CASE r.site = "start" -> [r1 EXCEPT !.pc = "pop"]
    [] r.site = "pipe_item" -> [r1 EXCEPT !.pc = "save"]
    [] OTHER -> Return(r1, "OK")

\* Where an exception raised by send_message_with_retry goes: the
\* /listsenders and /checkemails branches catch it and send "Error: ...",
\* every other call site lets it leave the handler.
OnRaise(r, reason) ==
  LET r1 == [r EXCEPT !.result = "raised"] IN
  CASE r.site \in {"ls_empty", "ls_list"} ->
         BeginSend(r1, "ls_err", ErrorMsg(reason))
    [] r.site \in {"pipe_empty", "pipe_item", "pipe_done"} ->
         BeginSend(r1, "pipe_err", ErrorMsg(reason))
    [] OTHER -> Return(r1, "500")

\* Update ids of the requests that passed the dedup and have returned.
HandledAfter(h, i) ==
  h \cup { i[q].update_id : q \in { w \in Workers :
             i[w].pc = "done" /\ ~i[w].dup /\ i[w].update_id # NoId } }

\* ------------------------------------------------------------- actions
\* A worker that serves no request. Which free worker takes the next
\* request makes no difference to the program: it is the lowest one.
Free(p) == inv[p].pc \in {"idle", "done"}

\* webhook(), lines 103-106: a request arrives at a free worker.
Receive(p) ==
  /\ Free(p)
  /\ \A q \in Workers : q < p => ~Free(q)
  /\ received < MaxUpdates
  /\ \E u \in UpdateIds \cup {NoId}, c \in Chats, t \in RawTexts \cup {NoText} :
       LET r == [Idle EXCEPT !.serial = received + 1, !.update_id = u,
                             !.chat_id = c, !.text = t, !.raw = t,
                             !.replay = (u \in handled),
                             !.alone = (\A q \in Workers : Free(q))] IN
       inv' = [inv EXCEPT ![p] = IF u = NoId THEN Return(r, "OK")
                                 ELSE [r EXCEPT !.pc = "check"]]
  /\ received' = received + 1
  /\ UNCHANGED <<processed_updates, user_sender_names, log, handled, plan>>

\* DedupCheck without the membership test: every request is processed.
DedupCheckNoSkip(p) ==
  /\ inv[p].pc = "check"
  /\ inv' = [inv EXCEPT ![p] = [inv[p] EXCEPT !.pc = "add"]]
  /\ UNCHANGED <<processed_updates, user_sender_names, log, received, handled, plan>>

\* Line 109: if update_id in processed_updates: return "OK".
DedupCheck(p) ==
  /\ inv[p].pc = "check"
  /\ inv' = [inv EXCEPT ![p] =
       IF inv[p].update_id \in processed_updates
       THEN Return([inv[p] EXCEPT !.dup = TRUE], "OK")
       ELSE [inv[p] EXCEPT !.pc = "add"]]
  /\ UNCHANGED <<processed_updates, user_sender_names, log, received, handled, plan>>

\* DedupAdd that keeps the text as received, without strip().
DedupAddNoStrip(p) ==
  /\ inv[p].pc = "add"
  /\ processed_updates' = processed_updates \cup {inv[p].update_id}
  /\ inv' = [inv EXCEPT ![p] =
       IF inv[p].text = NoText THEN Return(inv[p], "OK")
       ELSE [inv[p] EXCEPT !.pc = "route"]]
  /\ handled' = HandledAfter(handled, inv')
  /\ UNCHANGED <<user_sender_names, log, received, plan>>

\* Lines 112-117: processed_updates.add(update_id); a message without
\* text is not handled further; the text is stripped.
DedupAdd(p) ==
  /\ inv[p].pc = "add"
  /\ processed_updates' = processed_updates \cup {inv[p].update_id}
  /\ inv' = [inv EXCEPT ![p] =
       IF inv[p].text = NoText THEN Return(inv[p], "OK")
       ELSE [inv[p] EXCEPT !.pc = "route", !.text = Strip(inv[p].text)]]
  /\ handled' = HandledAfter(handled, inv')
  /\ UNCHANGED <<user_sender_names, log, received, plan>>

\* Lines 120-157 and 195: the if/elif chain over the text and the session.
Route(p) ==
  /\ inv[p].pc = "route"
  /\ LET r == inv[p] IN
     inv' = [inv EXCEPT ![p] =
       CASE r.text = START -> BeginSend(r, "start", Msg("welcome", 0, <<>>))
         [] r.text = LISTSENDERS -> [r EXCEPT !.pc = "listsenders"]
         [] r.text \notin {START, LISTSENDERS}
              /\ (r.chat_id \in DOMAIN user_sender_names \/ StartsWithSlash(r.text)) ->
              [r EXCEPT !.pc = "command"]
         [] OTHER -> [r EXCEPT !.pc = "store"]]
  /\ UNCHANGED <<processed_updates, user_sender_names, log, received, handled, plan>>

\* Line 133: user_sender_names.pop(chat_id, None), then return "OK".
StartPop(p) ==
  /\ inv[p].pc = "pop"
  /\ user_sender_names' = Pop(user_sender_names, inv[p].chat_id)
  /\ inv' = [inv EXCEPT ![p] = Return(inv[p], "OK")]
  /\ handled' = HandledAfter(handled, inv')
  /\ UNCHANGED <<processed_updates, log, received, plan>>

\* Lines 139-154: fetch_emails(return_senders=True) and its reply.
ListSenders(p) ==
  /\ inv[p].pc = "listsenders"
  /\ \E n \in -1..maxResults :
       inv' = [inv EXCEPT ![p] =
         LET r == [inv[p] EXCEPT !.fetchCalls = @ + 1] IN
         CASE n = -1 -> BeginSend(r, "ls_err", ErrorMsg("fetch"))
           [] n = 0 -> BeginSend(r, "ls_empty", Msg("nounread", 0, <<>>))
           [] OTHER -> BeginSend(r, "ls_list", Msg("senders", n, <<>>))]
  /\ UNCHANGED <<processed_updates, user_sender_names, log, received, handled, plan>>

\* Command without the test of line 160: /checkemails always runs the pipeline.
CommandNoPrecheck(p) ==
  /\ inv[p].pc = "command"
  /\ LET r == inv[p] IN
     inv' = [inv EXCEPT ![p] =
       IF r.text = CHECKEMAILS
       THEN [r EXCEPT !.pc = "getsender"]
       ELSE BeginSend(r, "usage", Msg("usage", 0, <<>>))]
  /\ UNCHANGED <<processed_updates, user_sender_names, log, received, handled, plan>>

\* Lines 159-164 and 190-194: a command, or any text while a sender is set.
Command(p) ==
  /\ inv[p].pc = "command"
  /\ LET r == inv[p] IN
     inv' = [inv EXCEPT ![p] =
       IF r.text = CHECKEMAILS
       THEN IF r.chat_id \notin DOMAIN user_sender_names
            THEN BeginSend(r, "prompt", Msg("prompt", 0, <<>>))
            ELSE [r EXCEPT !.pc = "getsender"]
       ELSE BeginSend(r, "usage", Msg("usage", 0, <<>>))]
  /\ UNCHANGED <<processed_updates, user_sender_names, log, received, handled, plan>>

\* Line 166: sender_name = user_sender_names[chat_id]; a KeyError (the
\* entry was popped since line 160) is outside the try and leaves the handler.
GetSender(p) ==
  /\ inv[p].pc = "getsender"
  /\ LET r == inv[p] IN
     inv' = [inv EXCEPT ![p] =
       IF r.chat_id \in DOMAIN user_sender_names
       THEN [r EXCEPT !.pc = "fetch", !.sender_name = user_sender_names[r.chat_id]]
       ELSE Return(r, "500")]
  /\ handled' = HandledAfter(handled, inv')
  /\ UNCHANGED <<processed_updates, user_sender_names, log, received, plan>>

\* Lines 197-201: user_sender_names[chat_id] = text, then the ack.
Store(p) ==
  /\ inv[p].pc = "store"
  /\ user_sender_names' = Put(user_sender_names, inv[p].chat_id, inv[p].text)
  /\ inv' = [inv EXCEPT ![p] =
       BeginSend(inv[p], "ack", Msg("selected", 0, inv[p].text))]
  /\ UNCHANGED <<processed_updates, log, received, handled, plan>>

\* Fetch that returns silently on an empty list.
FetchEmptySilent(p) ==
  /\ inv[p].pc = "fetch"
  /\ \E n \in -1..maxResults :
       inv' = [inv EXCEPT ![p] =
         LET r == [inv[p] EXCEPT !.fetchCalls = @ + 1] IN
         CASE n = -1 -> BeginSend(r, "pipe_err", ErrorMsg("fetch"))
           [] n = 0 -> Return([r EXCEPT !.site = "pipe_empty"], "OK")
           [] OTHER -> [r EXCEPT !.pc = "analyze", !.emails = n, !.idx = 1]]
  /\ handled' = HandledAfter(handled, inv')
  /\ UNCHANGED <<processed_updates, user_sender_names, log, received, plan>>

\* Fetch that enters the loop on an empty list and falls through to
\* "All emails processed.".
FetchEmptyAsDone(p) ==
  /\ inv[p].pc = "fetch"
  /\ \E n \in -1..maxResults :
       inv' = [inv EXCEPT ![p] =
         LET r == [inv[p] EXCEPT !.fetchCalls = @ + 1] IN
         CASE n = -1 -> BeginSend(r, "pipe_err", ErrorMsg("fetch"))
           [] n = 0 -> BeginSend(r, "pipe_done", Msg("allprocessed", 0, <<>>))
           [] OTHER -> [r EXCEPT !.pc = "analyze", !.emails = n, !.idx = 1]]
  /\ UNCHANGED <<processed_updates, user_sender_names, log, received, handled, plan>>

\* Fetch whose failure takes the update id out of the seen set again, so
\* that a redelivery of the update would be processed.
FetchFailureForgets(p) ==
  /\ inv[p].pc = "fetch"
  /\ \E n \in -1..maxResults :
       /\ inv' = [inv EXCEPT ![p] =
            LET r == [inv[p] EXCEPT !.fetchCalls = @ + 1] IN
            CASE n = -1 -> BeginSend(r, "pipe_err", ErrorMsg("fetch"))
              [] n = 0 -> BeginSend(r, "pipe_empty", Msg("nounreadfrom", 0, r.sender_name))
              [] OTHER -> [r EXCEPT !.pc = "analyze", !.emails = n, !.idx = 1]]
       /\ processed_updates' = IF n = -1 THEN processed_updates \ {inv[p].update_id}
                               ELSE processed_updates
  /\ UNCHANGED <<user_sender_names, log, received, handled, plan>>

\* Lines 169-174: emails = fetch_emails(sender_name=sender_name).
Fetch(p) ==
  /\ inv[p].pc = "fetch"
  /\ \E n \in -1..maxResults :
       inv' = [inv EXCEPT ![p] =
         LET r == [inv[p] EXCEPT !.fetchCalls = @ + 1] IN
         CASE n = -1 -> BeginSend(r, "pipe_err", ErrorMsg("fetch"))
           [] n = 0 -> BeginSend(r, "pipe_empty", Msg("nounreadfrom", 0, r.sender_name))
           [] OTHER -> [r EXCEPT !.pc = "analyze", !.emails = n, !.idx = 1]]
  /\ UNCHANGED <<processed_updates, user_sender_names, log, received, handled, plan>>

\* Analyze that looks the sender up in the session again for each email.
AnalyzeRereadsSender(p) ==
  /\ inv[p].pc = "analyze"
  /\ \E ok \in BOOLEAN :
       inv' = [inv EXCEPT ![p] =
         LET r == [inv[p] EXCEPT !.analyzeCalls = @ + 1] IN
         IF r.chat_id \notin DOMAIN user_sender_names
         THEN BeginSend(r, "pipe_err", ErrorMsg("analysis"))
         ELSE LET r2 == [r EXCEPT !.sender_name = user_sender_names[r.chat_id]] IN
              IF ok THEN BeginSend(r2, "pipe_item", Msg("suggestion", r.idx, <<>>))
              ELSE BeginSend(r2, "pipe_err", ErrorMsg("analysis"))]
  /\ UNCHANGED <<processed_updates, user_sender_names, log, received, handled, plan>>

\* Lines 176-182: suggestion = analyze_email(email), then the suggestion is sent.
Analyze(p) ==
  /\ inv[p].pc = "analyze"
  /\ \E ok \in BOOLEAN :
       inv' = [inv EXCEPT ![p] =
         LET r == [inv[p] EXCEPT !.analyzeCalls = @ + 1] IN
         IF ok THEN BeginSend(r, "pipe_item", Msg("suggestion", r.idx, <<>>))
         ELSE BeginSend(r, "pipe_err", ErrorMsg("analysis"))]
  /\ UNCHANGED <<processed_updates, user_sender_names, log, received, handled, plan>>

\* Save that appends no row.
SaveNoRecord(p) ==
  /\ inv[p].pc = "save"
  /\ LET r == inv[p] IN
     \E ok \in BOOLEAN :
       inv' = [inv EXCEPT ![p] =
         CASE ~ok -> BeginSend(r, "pipe_err", ErrorMsg("save"))
           [] ok /\ r.idx < r.emails -> [r EXCEPT !.pc = "analyze", !.idx = @ + 1]
           [] OTHER -> BeginSend(r, "pipe_done", Msg("allprocessed", 0, <<>>))]
  /\ UNCHANGED <<processed_updates, user_sender_names, log, received, handled, plan>>

\* Save that has appended its row when the failure is raised.
SaveRecordsOnFailure(p) ==
  /\ inv[p].pc = "save"
  /\ LET r == inv[p] IN
     \E ok \in BOOLEAN :
       /\ inv' = [inv EXCEPT ![p] =
            CASE ~ok -> BeginSend(r, "pipe_err", ErrorMsg("save"))
              [] ok /\ r.idx < r.emails -> [r EXCEPT !.pc = "analyze", !.idx = @ + 1]
              [] OTHER -> BeginSend(r, "pipe_done", Msg("allprocessed", 0, <<>>))]
       /\ log' = [log EXCEPT ![r.chat_id] =
                    Append(@, Entry(r.serial, "persist", r.idx, <<>>))]
  /\ UNCHANGED <<processed_updates, user_sender_names, received, handled, plan>>

\* Save that leaves the loop after the first email.
SaveStopsEarly(p) ==
  /\ inv[p].pc = "save"
  /\ LET r == inv[p] IN
     \E ok \in BOOLEAN :
       /\ inv' = [inv EXCEPT ![p] =
            IF ok THEN BeginSend(r, "pipe_done", Msg("allprocessed", 0, <<>>))
            ELSE BeginSend(r, "pipe_err", ErrorMsg("save"))]
       /\ log' = IF ok
                 THEN [log EXCEPT ![r.chat_id] =
                         Append(@, Entry(r.serial, "persist", r.idx, <<>>))]
                 ELSE log
  /\ UNCHANGED <<processed_updates, user_sender_names, received, handled, plan>>

\* Lines 183-185: save_to_drive(email, suggestion), then the next email or
\* "All emails processed.".
Save(p) ==
  /\ inv[p].pc = "save"
  /\ LET r == inv[p] IN
     \E ok \in BOOLEAN :
       /\ inv' = [inv EXCEPT ![p] =
            CASE ~ok -> BeginSend(r, "pipe_err", ErrorMsg("save"))
              [] ok /\ r.idx < r.emails -> [r EXCEPT !.pc = "analyze", !.idx = @ + 1]
              [] OTHER -> BeginSend(r, "pipe_done", Msg("allprocessed", 0, <<>>))]
       /\ log' = IF ok
                 THEN [log EXCEPT ![r.chat_id] =
                         Append(@, Entry(r.serial, "persist", r.idx, <<>>))]
                 ELSE log
  /\ UNCHANGED <<processed_updates, user_sender_names, received, handled, plan>>

\* A backoff that grows by one time-unit per attempt instead of doubling.
BackoffLinear(attempt) == attempt + 1

\* 2 ** attempt
Backoff(attempt) == 2 ^ attempt

\* The loop with one retry fewer: it raises on the 4th transient failure.
IterationOneFewer(r, o) ==
  LET r1 == [r EXCEPT !.calls = @ + 1] IN
  CASE o = "ok" -> OnSent(r1)
    [] o \in Transient /\ r.attempt < max_retries - 2 ->
         [r1 EXCEPT !.attempt = @ + 1, !.delays = Append(@, 2 ^ r.attempt)]
    [] OTHER -> OnRaise(r1, o)

\* The loop with one retry more: the 5th transient failure is retried.
IterationOneMore(r, o) ==
  LET r1 == [r EXCEPT !.calls = @ + 1] IN
  CASE o = "ok" -> OnSent(r1)
    [] o \in Transient /\ r.attempt < max_retries ->
         [r1 EXCEPT !.attempt = @ + 1, !.delays = Append(@, 2 ^ r.attempt)]
    [] OTHER -> OnRaise(r1, o)

\* The loop that treats every exception as transient.
IterationRetryAll(r, o) ==
  LET r1 == [r EXCEPT !.calls = @ + 1] IN
  CASE o = "ok" -> OnSent(r1)
    [] o # "ok" /\ r.attempt < max_retries - 1 ->
         [r1 EXCEPT !.attempt = @ + 1, !.delays = Append(@, 2 ^ r.attempt)]
    [] OTHER -> OnRaise(r1, o)

\* The loop that retries a transient failure without counting the attempt.
IterationNoCount(r, o) ==
  LET r1 == [r EXCEPT !.calls = @ + 1] IN
  CASE o = "ok" -> OnSent(r1)
    [] o \in Transient -> r1
    [] OTHER -> OnRaise(r1, o)

\* Lines 77-99: one iteration of the retry loop, with the outcome o of
\* bot.send_message.
Iteration(r, o) ==
  LET r1 == [r EXCEPT !.calls = @ + 1] IN
  CASE o = "ok" -> OnSent(r1)
    [] o \in Transient /\ r.attempt < max_retries - 1 ->
         [r1 EXCEPT !.attempt = @ + 1, !.delays = Append(@, Backoff(r.attempt))]
    [] OTHER -> OnRaise(r1, o)

\* What the send stub may answer to the next call: anything, or what its
\* script says.
StubOutcomes(p) ==
  IF plan[p] = <<>> THEN Outcomes
  ELSE IF inv[p].calls < Len(plan[p]) THEN {plan[p][inv[p].calls + 1]} ELSE {"ok"}

\* send_message_with_retry: one attempt, and the sleep or the exit after it.
SendAttempt(p) ==
  /\ inv[p].pc = "send"
  /\ \E o \in StubOutcomes(p) :
       /\ inv' = [inv EXCEPT ![p] = Iteration(inv[p], o)]
       /\ log' = IF o = "ok"
                 THEN [log EXCEPT ![inv[p].chat_id] =
                         Append(@, Entry(inv[p].serial, inv[p].msg.kind,
                                         inv[p].msg.n, inv[p].msg.text))]
                 ELSE log
  /\ handled' = HandledAfter(handled, inv')
  /\ UNCHANGED <<processed_updates, user_sender_names, received, plan>>

Next ==
  \E p \in Workers :
    \/ Receive(p)
    \/ DedupCheck(p)
    \/ DedupAdd(p)
    \/ Route(p)
    \/ StartPop(p)
    \/ ListSenders(p)
    \/ Command(p)
    \/ GetSender(p)
    \/ Store(p)
    \/ Fetch(p)
    \/ Analyze(p)
    \/ Save(p)
    \/ SendAttempt(p)

Spec == Init /\ [][Next]_vars

\* ---------------------------------------------------------- progress
\* A step of the handler of worker p: everything but the arrival of a request.
Step(p) ==
  \/ DedupCheck(p) \/ DedupAdd(p) \/ Route(p) \/ StartPop(p) \/ ListSenders(p)
  \/ Command(p) \/ GetSender(p) \/ Store(p) \/ Fetch(p) \/ Analyze(p) \/ Save(p)
  \/ SendAttempt(p)

\* Every collaborator call returns or fails, and a worker that can go on
\* does go on.
SpecLive == Spec /\ \A p \in Workers : WF_vars(Step(p))

\* ------------------------------------------- the delivery primitive
\* send_message_with_retry called once against a scripted send stub: the
\* reply to "/help" of update 1 in chat 1 is about to be sent.
Plans == [1..PlanLen -> Outcomes]

InitRetry ==
  /\ processed_updates = {1}
  /\ user_sender_names = [c \in {} |-> <<>>]
  /\ inv = [p \in Workers |->
       IF p = 1
       THEN BeginSend([Idle EXCEPT !.serial = 1, !.update_id = 1,
                                   !.text = <<"/", "help">>,
                                   !.raw = <<"/", "help">>],
                      "usage", Msg("usage", 0, <<>>))
       ELSE Idle]
  /\ log = [c \in Chats |-> <<>>]
  /\ received = 1
  /\ handled = {}
  /\ \E pl \in Plans : plan = [p \in Workers |-> IF p = 1 THEN pl ELSE <<>>]

NextRetry == \E p \in Workers : SendAttempt(p)

SpecRetry == InitRetry /\ [][NextRetry]_vars

\* ------------------------------------------------- a chat with a sender
\* The state in which request 0, the update PriorId with the text "alice"
\* for chat 1, has stored its sender, delivered the ack and returned; then
\* up to MidUpdates requests arrive, each with an update id of its own.
PriorId == MaxUpdateId + 1
LaterTexts == {START, <<SP, "bob", SP>>}

InitMid ==
  /\ processed_updates = {PriorId}
  /\ user_sender_names = Put([c \in {} |-> <<>>], 1, <<"alice">>)
  /\ inv = [p \in Workers |->
       IF p = 1
       THEN [Idle EXCEPT !.pc = "done", !.update_id = PriorId,
                         !.text = <<"alice">>, !.raw = <<"alice">>,
                         !.site = "ack", !.msg = Msg("selected", 0, <<"alice">>),
                         !.calls = 1, !.result = "ok", !.resp = "OK"]
       ELSE Idle]
  /\ log = [c \in Chats |->
       IF c = 1 THEN <<Entry(0, "selected", 0, <<"alice">>)>> ELSE <<>>]
  /\ received = 0
  /\ handled = {PriorId}
  /\ plan = [p \in Workers |-> <<>>]

\* webhook(), lines 103-106, for an update with a new id and a text:
\* request 1 is "/checkemails" in chat 1, the later ones are "/start" or a
\* sender name in any chat.
ReceiveMid(p) ==
  /\ Free(p)
  /\ \A q \in Workers : q < p => ~Free(q)
  /\ received < MidUpdates
  /\ \E c \in IF received = 0 THEN {1} ELSE Chats,
        t \in IF received = 0 THEN {CHECKEMAILS} ELSE LaterTexts :
       inv' = [inv EXCEPT ![p] =
         [Idle EXCEPT !.pc = "check", !.serial = received + 1,
                      !.update_id = PriorId + received + 1,
                      !.chat_id = c, !.text = t, !.raw = t,
                      !.alone = (\A q \in Workers : Free(q))]]
  /\ received' = received + 1
  /\ UNCHANGED <<processed_updates, user_sender_names, log, handled, plan>>

NextMid ==
  \E p \in Workers :
    \/ ReceiveMid(p)
    \/ DedupCheck(p)
    \/ DedupAdd(p)
    \/ Route(p)
    \/ StartPop(p)
    \/ Command(p)
    \/ GetSender(p)
    \/ Store(p)
    \/ Fetch(p)
    \/ Analyze(p)
    \/ Save(p)
    \/ SendAttempt(p)

SpecMid == InitMid /\ [][NextMid]_vars

\* ------------------------------------------------------------- claims
\* What the request served by worker p has delivered and persisted so far.
Mine(p) == SelectSeq(log[inv[p].chat_id], LAMBDA e : e.inv = inv[p].serial)

\* suggestion 1, persist 1, ..., suggestion k, persist k of request s.
PipelineLog(s, k) ==
  [j \in 1..(2 * k) |->
     IF j % 2 = 1 THEN Entry(s, "suggestion", (j + 1) \div 2, <<>>)
     ELSE Entry(s, "persist", j \div 2, <<>>)]

\* The request of worker p is past the dedup and in command processing.
Processing(p) ==
  /\ inv[p].update_id # NoId
  /\ inv[p].text # NoText
  /\ ~inv[p].dup
  /\ inv[p].pc \notin {"idle", "check", "add"}

\* C1: of the requests that carry the same update id, at most one is ever
\* in command processing, also when they are served concurrently.
C1_ExactlyOnce ==
  \A p, q \in Workers :
    (p # q /\ inv[p].update_id = inv[q].update_id /\ Processing(p)) => ~Processing(q)

C3_StartClears ==
  [][\A p \in Workers :
       (inv[p].text = START /\ inv[p].pc \in {"send", "pop"} /\ inv'[p].pc = "done") =>
         inv[p].chat_id \notin DOMAIN user_sender_names']_vars

\* C4: /checkemails that finds no sender for its chat at line 160 goes to
\* the prompt and nowhere else; a request on that branch fetches nothing,
\* analyses nothing, delivers at most the one prompt and persists nothing,
\* and its steps leave the sessions alone.
C4_NoFilterNoPipeline ==
  /\ [][\A p \in Workers :
          (/\ inv[p].pc = "command" /\ inv[p].text = CHECKEMAILS
           /\ inv[p].chat_id \notin DOMAIN user_sender_names
           /\ inv'[p] # inv[p]) =>
            /\ inv'[p].pc = "send" /\ inv'[p].site = "prompt"
            /\ inv'[p].msg = Msg("prompt", 0, <<>>)]_vars
  /\ [](\A p \in Workers :
          inv[p].site = "prompt" =>
            /\ inv[p].pc \in {"send", "done"}
            /\ inv[p].fetchCalls = 0 /\ inv[p].analyzeCalls = 0
            /\ Mine(p) \in {<<>>, <<Entry(inv[p].serial, "prompt", 0, <<>>)>>}
            /\ (inv[p].pc = "done" /\ inv[p].resp = "OK" => Mine(p) # <<>>))
  /\ [][\A p \in Workers :
          (inv[p].site = "prompt" /\ inv[p].pc = "send" /\ inv'[p] # inv[p]) =>
            UNCHANGED user_sender_names]_vars

C4_Witness ==
  \E p \in Workers :
    /\ inv[p].site = "prompt" /\ inv[p].pc = "done" /\ inv[p].resp = "OK"
    /\ inv[p].chat_id \notin DOMAIN user_sender_names
    /\ Mine(p) = <<Entry(inv[p].serial, "prompt", 0, <<>>)>>

\* The stub fails transiently on exactly the first k calls, then succeeds.
FailsThenOk(pl, k) ==
  /\ pl # <<>>
  /\ \A j \in 1..k : pl[j] \in Transient
  /\ pl[k + 1] = "ok"

NonDecreasing(d) == \A i, j \in 1..Len(d) : i <= j => d[i] <= d[j]

\* C5: against a stub that fails transiently on exactly its first k < 5
\* calls and then succeeds, send_message_with_retry returns, the stub was
\* called k+1 times, and the k delays slept are non-decreasing.
C5_RetrySucceeds ==
  \A p \in Workers : \A k \in 0..4 :
    (FailsThenOk(plan[p], k) /\ inv[p].site = "usage") =>
      /\ inv[p].calls <= k + 1
      /\ NonDecreasing(inv[p].delays)
      /\ (inv[p].pc = "done" =>
            /\ inv[p].result = "ok" /\ inv[p].resp = "OK"
            /\ inv[p].calls = k + 1
            /\ Len(inv[p].delays) = k
            /\ Mine(p) = <<Entry(inv[p].serial, "usage", 0, <<>>)>>)

C5_Witness ==
  \E p \in Workers :
    /\ FailsThenOk(plan[p], 4) /\ inv[p].pc = "done"
    /\ inv[p].result = "ok" /\ inv[p].calls = 5
    /\ inv[p].delays = <<1, 2, 4, 8>>

\* C6: against a stub that fails transiently on its first 5 calls,
\* send_message_with_retry raises, and the stub is called 5 times, never 6.
C6_RetryExhausted ==
  \A p \in Workers :
    (/\ plan[p] # <<>> /\ inv[p].site = "usage"
     /\ \A j \in 1..5 : plan[p][j] \in Transient) =>
      /\ inv[p].calls <= 5
      /\ inv[p].result # "ok"
      /\ (inv[p].pc = "done" =>
            /\ inv[p].result = "raised" /\ inv[p].calls = 5
            /\ Mine(p) = <<>>)

C6_Witness ==
  \E p \in Workers :
    /\ plan[p] # <<>>
    /\ \A j \in 1..5 : plan[p][j] \in Transient
    /\ plan[p][6] = "ok"
    /\ inv[p].pc = "done" /\ inv[p].result = "raised" /\ inv[p].calls = 5

\* C7: a /checkemails run that has returned after the analysis of email i
\* failed and the error message was delivered has delivered and persisted
\* exactly the emails 1..i-1, once each and in order, then the one error
\* message, and nothing else; it analysed i emails.
C7_AnalysisAbort ==
  \A p \in Workers :
    (/\ inv[p].pc = "done" /\ inv[p].site = "pipe_err"
     /\ inv[p].msg = ErrorMsg("analysis") /\ inv[p].result = "ok") =>
      /\ inv[p].idx \in 1..inv[p].emails
      /\ inv[p].analyzeCalls = inv[p].idx
      /\ Mine(p) = PipelineLog(inv[p].serial, inv[p].idx - 1)
                     \o <<Entry(inv[p].serial, "error", 0, <<"analysis">>)>>

C7_Witness ==
  \E p \in Workers :
    /\ inv[p].pc = "done" /\ inv[p].site = "pipe_err"
    /\ inv[p].msg = ErrorMsg("analysis") /\ inv[p].result = "ok"
    /\ inv[p].emails = 3 /\ inv[p].idx = 2
    /\ Len(Mine(p)) = 3

\* The end-to-end scenario: worker p has returned from a /checkemails that
\* arrived when no request was being served, fetched two emails for the
\* sender f and delivered "All emails processed."; the request before it
\* stored f for the same chat and its ack was delivered.
Scenario(p, f) ==
  /\ inv[p].pc = "done" /\ inv[p].text = CHECKEMAILS /\ inv[p].alone
  /\ inv[p].sender_name = f /\ inv[p].emails = 2
  /\ inv[p].site = "pipe_done" /\ inv[p].result = "ok"
  /\ \E i \in 1..Len(log[inv[p].chat_id]) :
       log[inv[p].chat_id][i] = Entry(inv[p].serial - 1, "selected", 0, f)

\* What the scenario's two requests delivered and persisted, in order.
ScenarioLog(p) ==
  SelectSeq(log[inv[p].chat_id],
            LAMBDA e : e.inv \in {inv[p].serial - 1, inv[p].serial})

Filters == {Strip(t) : t \in {x \in RawTexts : ~StartsWithSlash(Strip(x))}}

\* C8 (as amended): the scenario yields, in this order and nothing else,
\* the ack, suggestion 1, record 1, suggestion 2, record 2 and "All emails
\* processed.": six effects, four of them sends.
C8_EndToEnd ==
  \A p \in Workers : \A f \in Filters :
    Scenario(p, f) =>
      ScenarioLog(p) =
        <<Entry(inv[p].serial - 1, "selected", 0, f)>>
          \o PipelineLog(inv[p].serial, 2)
          \o <<Entry(inv[p].serial, "allprocessed", 0, <<>>)>>

C8_Witness ==
  \E p \in Workers :
    /\ Scenario(p, <<"alice">>)
    /\ Len(ScenarioLog(p)) = 6
    /\ Cardinality({i \in 1..6 : ScenarioLog(p)[i].kind # "persist"}) = 4

\* C8 (as stated): the same order, and seven effects in all.
C8_SevenSends ==
  \A p \in Workers : \A f \in Filters :
    Scenario(p, f) =>
      /\ Len(ScenarioLog(p)) = 7
      /\ SubSeq(ScenarioLog(p), 1, 6) =
           <<Entry(inv[p].serial - 1, "selected", 0, f)>>
             \o PipelineLog(inv[p].serial, 2)
             \o <<Entry(inv[p].serial, "allprocessed", 0, <<>>)>>

\* The request of worker p has returned on an abort path.
Aborted(p) ==
  /\ inv[p].pc = "done"
  /\ inv[p].resp = "500" \/ inv[p].site \in {"ls_err", "pipe_err"}

ErrorsDelivered(p) ==
  Cardinality({i \in 1..Len(Mine(p)) : Mine(p)[i].kind = "error"})

\* C9: a request that returned on an abort path has delivered exactly one
\* error message to its chat.
C9_OneErrorMessage ==
  \A p \in Workers : Aborted(p) => ErrorsDelivered(p) = 1

\* C10: every request is answered "OK".
C10_AlwaysOK ==
  \A p \in Workers : inv[p].pc = "done" => inv[p].resp = "OK"

\* The stub fails transiently on its first k calls, then fails with a
\* non-transient error.
FailsThenOther(pl, k) ==
  /\ pl # <<>>
  /\ \A j \in 1..k : pl[j] \in Transient
  /\ pl[k + 1] = "Other"

\* C12: when the call k+1 fails with a non-transient error after k < 5
\* transient failures, send_message_with_retry raises at once: the stub is
\* never called again and no delay follows the k delays already slept.
C12_NonTransientAborts ==
  \A p \in Workers : \A k \in 0..4 :
    (FailsThenOther(plan[p], k) /\ inv[p].site = "usage") =>
      /\ inv[p].calls <= k + 1
      /\ Len(inv[p].delays) <= k
      /\ inv[p].result # "ok"
      /\ (inv[p].calls = k + 1 =>
            /\ inv[p].pc = "done" /\ inv[p].result = "raised"
            /\ Len(inv[p].delays) = k
            /\ Mine(p) = <<>>)

C12_Witness ==
  \E p \in Workers :
    /\ FailsThenOther(plan[p], 2) /\ plan[p][4] = "ok"
    /\ inv[p].pc = "done" /\ inv[p].result = "raised"
    /\ inv[p].calls = 3 /\ Len(inv[p].delays) = 2

\* The stub fails transiently on its first 5 calls.
FailsFive(pl) == pl # <<>> /\ \A j \in 1..5 : pl[j] \in Transient

\* C13 (as amended): the delay slept after the j-th transient failure, for
\* j <= 4, is 2^(j-1); nothing is slept after the 5th, so a call that
\* exhausts its 5 attempts has waited 1, 2, 4, 8.
C13_Doubling ==
  \A p \in Workers :
    (plan[p] # <<>> /\ inv[p].site = "usage") =>
      /\ \A j \in 1..Len(inv[p].delays) : inv[p].delays[j] = 2 ^ (j - 1)
      /\ Len(inv[p].delays) = inv[p].attempt
      /\ (inv[p].pc = "send" => inv[p].calls = inv[p].attempt)
      /\ (FailsFive(plan[p]) /\ inv[p].pc = "done" => inv[p].delays = <<1, 2, 4, 8>>)

C13_Witness ==
  \E p \in Workers :
    /\ FailsFive(plan[p]) /\ inv[p].pc = "done" /\ inv[p].result = "raised"
    /\ inv[p].delays = <<1, 2, 4, 8>>

\* C13 (as stated): a call that exhausts its 5 attempts has waited
\* 1, 2, 4, 8, 16.
C13_SixteenWaited ==
  \A p \in Workers :
    (FailsFive(plan[p]) /\ inv[p].pc = "done") => inv[p].delays = <<1, 2, 4, 8, 16>>

\* The other chats have the same session before and after the step.
OthersUnchanged(c) ==
  \A d \in Chats \ {c} :
    /\ d \in DOMAIN user_sender_names' <=> d \in DOMAIN user_sender_names
    /\ d \in DOMAIN user_sender_names => user_sender_names'[d] = user_sender_names[d]

\* C14: a fresh update whose stripped text t does not begin with "/", for
\* a chat without sender, goes to the store; the store leaves exactly t as
\* the chat's sender and the other chats' sessions as they were; and
\* /checkemails reads the stored sender as it is and passes it to the fetch.
C14_StoreThenRead ==
  /\ [][\A p \in Workers :
          (/\ inv[p].pc = "route" /\ inv'[p] # inv[p]
           /\ inv[p].chat_id \notin DOMAIN user_sender_names
           /\ ~StartsWithSlash(Strip(inv[p].raw))) =>
            inv'[p].pc = "store"]_vars
  /\ [][\A p \in Workers :
          (inv[p].pc = "store" /\ inv'[p] # inv[p]) =>
            /\ inv[p].chat_id \in DOMAIN user_sender_names'
            /\ user_sender_names'[inv[p].chat_id] = Strip(inv[p].raw)
            /\ OthersUnchanged(inv[p].chat_id)
            /\ inv'[p].msg = Msg("selected", 0, Strip(inv[p].raw))]_vars
  /\ [][\A p \in Workers :
          (inv[p].pc = "getsender" /\ inv'[p].pc = "fetch") =>
            inv'[p].sender_name = user_sender_names[inv[p].chat_id]]_vars
  /\ [](\A p \in Workers :
          inv[p].site = "pipe_empty" =>
            inv[p].msg = Msg("nounreadfrom", 0, inv[p].sender_name))

C14_Witness ==
  \E p \in Workers :
    /\ inv[p].text = CHECKEMAILS /\ inv[p].alone
    /\ inv[p].pc = "done" /\ inv[p].site = "pipe_empty" /\ inv[p].result = "ok"
    /\ inv[p].sender_name = <<"bob">>
    /\ DOMAIN user_sender_names = {inv[p].chat_id}
    /\ log[inv[p].chat_id] =
         << Entry(inv[p].serial - 1, "selected", 0, <<"bob">>),
            Entry(inv[p].serial, "nounreadfrom", 0, <<"bob">>) >>

\* The request of worker p called the fetch of /checkemails, which
\* returned an empty list.
EmptyRun(p) ==
  /\ inv[p].text = CHECKEMAILS
  /\ inv[p].fetchCalls = 1
  /\ inv[p].emails = 0
  /\ inv[p].msg # ErrorMsg("fetch")

\* A step of the request that worker p serves.
StepOf(p) == inv'[p] # inv[p] /\ inv'[p].serial = inv[p].serial

\* C15: a /checkemails run whose fetch returned an empty list analyses and
\* persists nothing and never sends "All emails processed."; it goes to the
\* "No unread emails found from {sender}." message, and when that message
\* is delivered it is the run's only effect and the run returns OK; no
\* step of the run changes the sessions.
C15_EmptyFetch ==
  /\ [](\A p \in Workers :
          EmptyRun(p) =>
            /\ inv[p].analyzeCalls = 0
            /\ inv[p].pc \in {"send", "done"}
            /\ inv[p].site \in {"pipe_empty", "pipe_err"}
            /\ \A i \in 1..Len(Mine(p)) : Mine(p)[i].kind \in {"nounreadfrom", "error"}
            /\ (inv[p].site = "pipe_empty" =>
                  /\ inv[p].msg = Msg("nounreadfrom", 0, inv[p].sender_name)
                  /\ (inv[p].pc = "send" => Mine(p) = <<>>)
                  /\ (inv[p].pc = "done" =>
                        /\ inv[p].resp = "OK"
                        /\ Mine(p) = <<Entry(inv[p].serial, "nounreadfrom", 0,
                                             inv[p].sender_name)>>)))
  /\ [][\A p \in Workers :
          (EmptyRun(p) /\ StepOf(p)) => UNCHANGED user_sender_names]_vars

C15_Witness ==
  \E p \in Workers :
    /\ EmptyRun(p) /\ inv[p].pc = "done" /\ inv[p].site = "pipe_empty"
    /\ inv[p].sender_name = <<"alice">>
    /\ user_sender_names[inv[p].chat_id] = <<"alice">>
    /\ Len(Mine(p)) = 1

HasKind(q, k) == \E i \in 1..Len(q) : q[i].kind = k

\* C16: a run sends "All emails processed." only with a non-empty list of
\* which every email has been analysed, delivered and persisted in fetch
\* order; once delivered it is the run's last effect, after exactly those,
\* with no error message, and the run has returned.
C16_AllProcessedLast ==
  \A p \in Workers :
    /\ inv[p].site = "pipe_done" =>
         /\ inv[p].emails >= 1
         /\ inv[p].idx = inv[p].emails
         /\ inv[p].analyzeCalls = inv[p].emails
         /\ (inv[p].pc = "send" => Mine(p) = PipelineLog(inv[p].serial, inv[p].emails))
    /\ HasKind(Mine(p), "allprocessed") =>
         /\ inv[p].pc = "done" /\ inv[p].site = "pipe_done" /\ inv[p].resp = "OK"
         /\ Mine(p) = PipelineLog(inv[p].serial, inv[p].emails)
                        \o <<Entry(inv[p].serial, "allprocessed", 0, <<>>)>>
    /\ inv[p].site = "pipe_err" => ~HasKind(Mine(p), "allprocessed")

C16_Witness ==
  \E p \in Workers :
    /\ inv[p].pc = "done" /\ inv[p].site = "pipe_done" /\ inv[p].emails = 3
    /\ Len(Mine(p)) = 7 /\ Mine(p)[7].kind = "allprocessed"

\* C17: when the save of email i fails after its suggestion was delivered,
\* the suggestion of i and the effects of 1..i-1 stay, no later email is
\* analysed, delivered or persisted, and the run ends with the error
\* message and without "All emails processed.": one suggestion more than
\* rows.
C17_SaveFails ==
  \A p \in Workers :
    (inv[p].site = "pipe_err" /\ inv[p].msg = ErrorMsg("save")) =>
      /\ inv[p].idx \in 1..inv[p].emails
      /\ inv[p].analyzeCalls = inv[p].idx
      /\ (inv[p].result # "ok" =>
            Mine(p) = PipelineLog(inv[p].serial, inv[p].idx - 1)
                        \o <<Entry(inv[p].serial, "suggestion", inv[p].idx, <<>>)>>)
      /\ (inv[p].result = "ok" =>
            /\ inv[p].pc = "done"
            /\ Mine(p) = PipelineLog(inv[p].serial, inv[p].idx - 1)
                           \o <<Entry(inv[p].serial, "suggestion", inv[p].idx, <<>>),
                                Entry(inv[p].serial, "error", 0, <<"save">>)>>)
      /\ Cardinality({i \in 1..Len(Mine(p)) : Mine(p)[i].kind = "suggestion"})
           = Cardinality({i \in 1..Len(Mine(p)) : Mine(p)[i].kind = "persist"}) + 1

C17_Witness ==
  \E p \in Workers :
    /\ inv[p].pc = "done" /\ inv[p].site = "pipe_err" /\ inv[p].msg = ErrorMsg("save")
    /\ inv[p].result = "ok" /\ inv[p].emails = 3 /\ inv[p].idx = 2
    /\ Len(Mine(p)) = 4

\* C18: the session of a chat only goes from no sender to a sender (a
\* plain text, stored while the chat has no sender) and from a sender to no
\* sender (/start): a stored sender is never replaced by another one; with
\* a sender stored, any text but the three commands gets the usage message;
\* a text that begins with "/" is never stored.
C18_SessionMachine ==
  /\ [][\A c \in Chats :
          (c \in DOMAIN user_sender_names /\ c \in DOMAIN user_sender_names') =>
            user_sender_names'[c] = user_sender_names[c]]_vars
  /\ [][\A p \in Workers :
          (inv[p].pc = "store" /\ StepOf(p)) =>
            /\ inv[p].chat_id \notin DOMAIN user_sender_names
            /\ ~StartsWithSlash(inv[p].text)]_vars
  /\ [][\A p \in Workers :
          (/\ inv[p].pc = "route" /\ StepOf(p)
           /\ inv[p].text \notin {START, LISTSENDERS}
           /\ inv[p].chat_id \in DOMAIN user_sender_names \/ StartsWithSlash(inv[p].text)) =>
            inv'[p].pc = "command"]_vars
  /\ [][\A p \in Workers :
          (inv[p].pc = "command" /\ StepOf(p) /\ inv[p].text # CHECKEMAILS) =>
            /\ inv'[p].site = "usage" /\ inv'[p].msg = Msg("usage", 0, <<>>)
            /\ UNCHANGED user_sender_names]_vars
  /\ [](\A p \in Workers :
          inv[p].site = "usage" =>
            /\ inv[p].pc \in {"send", "done"}
            /\ inv[p].fetchCalls = 0
            /\ \A i \in 1..Len(Mine(p)) : Mine(p)[i].kind = "usage")

\* The worker serves a request that has not returned.
Busy(p) == inv[p].pc \notin {"idle", "done"}

\* An upper bound on the steps the handler has left: 7 per email still to
\* do (analysis, up to 5 send attempts, save), 5 per message still to send.
LoopLeft(r) == 7 * (r.emails - r.idx) + 2 * max_retries

Rank(r) ==
  CASE r.pc \in {"idle", "done"} -> 0
    [] r.pc = "check" -> 5 + 7 * maxResults + 2 * max_retries + 1
    [] r.pc = "add" -> 4 + 7 * maxResults + 2 * max_retries + 1
    [] r.pc = "route" -> 3 + 7 * maxResults + 2 * max_retries + 1
    [] r.pc = "command" -> 2 + 7 * maxResults + 2 * max_retries + 1
    [] r.pc = "getsender" -> 1 + 7 * maxResults + 2 * max_retries + 1
    [] r.pc = "fetch" -> 7 * maxResults + 2 * max_retries + 1
    [] r.pc = "listsenders" -> 2 * max_retries + 1
    [] r.pc = "store" -> max_retries + 1
    [] r.pc = "pop" -> 1
    [] r.pc = "analyze" -> 7 + LoopLeft(r)
    [] r.pc = "save" -> 1 + LoopLeft(r)
    [] r.pc = "send" ->
         (max_retries - r.attempt)
           + (CASE r.site = "start" -> 1
                [] r.site = "pipe_item" -> 1 + LoopLeft(r)
                [] r.site \in {"ls_empty", "ls_list", "pipe_empty", "pipe_done"} -> max_retries
                [] OTHER -> 0)

\* C19: every step of a handler lowers a bound on the steps it has left,
\* which never goes below 0, and a handler that has not returned can always
\* take a step, so no request runs forever; one deliver call makes at most
\* 5 attempts; and the error notification of the /checkemails and
\* /listsenders branches only retries itself or ends the request.
C19_Terminates ==
  /\ [][\A p \in Workers : (Busy(p) /\ inv'[p] # inv[p]) =>
          Rank(inv'[p]) < Rank(inv[p])]_vars
  /\ [](\A p \in Workers :
          /\ Rank(inv[p]) >= 0
          /\ inv[p].calls <= 5
          /\ inv[p].attempt < 5
          /\ Busy(p) => ENABLED Step(p))
  /\ [][\A p \in Workers :
          (inv[p].pc = "send" /\ inv[p].site \in {"ls_err", "pipe_err"} /\ inv'[p] # inv[p]) =>
            \/ inv'[p].pc = "done"
            \/ /\ inv'[p].pc = "send" /\ inv'[p].site = inv[p].site
               /\ inv'[p].msg = inv[p].msg /\ inv'[p].attempt = inv[p].attempt + 1]_vars

\* Under SpecLive every request returns (TLC needs about 5 minutes for it).
EveryRequestReturns == \A p \in Workers : Busy(p) ~> ~Busy(p)

C19_Witness ==
  \E p \in Workers :
    /\ inv[p].pc = "done" /\ inv[p].site = "pipe_err" /\ inv[p].result = "raised"
    /\ inv[p].resp = "500" /\ inv[p].calls = 5
    /\ inv[p].msg \in {ErrorMsg("TimedOut"), ErrorMsg("NetworkError")}
    /\ inv[p].emails = 3 /\ inv[p].idx = 3
    /\ Mine(p) = PipelineLog(inv[p].serial, 3)

\* ------------------------------------------------- C11: failed runs
\* The request of worker p is a /checkemails run past line 166.
InPipeline(r) ==
  \/ r.pc \in {"fetch", "analyze", "save"}
  \/ r.pc = "send" /\ r.site \in {"pipe_empty", "pipe_item", "pipe_done", "pipe_err"}

\* The effects of request s in chat c.
EffectsOf(s, c) == SelectSeq(log[c], LAMBDA e : e.inv = s)

\* What a request with text t answers once its message is delivered.
NormalReply(r) ==
  CASE r.site = "start" -> <<Entry(r.serial, "welcome", 0, <<>>)>>
    [] r.site = "ack" -> <<Entry(r.serial, "selected", 0, Strip(r.raw))>>
    [] OTHER -> <<Entry(r.serial, "usage", 0, <<>>)>>

\* C11: no step of a /checkemails run past line 166, failing or not,
\* changes a session or the seen set; no step of any request removes an id
\* from the seen set, and the id of a request past line 112 is in it; a run
\* that failed and returned before any other request arrived leaves the
\* sessions and the seen set as they were but for its own id; a request
\* that arrives later is routed by its own text, is not dropped as a
\* duplicate, can always go on, and on delivery of its reply has exactly the
\* effect of its command.
C11_FailedRunFrame ==
  /\ [][\A p \in Workers : (InPipeline(inv[p]) /\ StepOf(p)) =>
          /\ user_sender_names' = user_sender_names
          /\ processed_updates' = processed_updates]_vars
  /\ [][processed_updates \subseteq processed_updates']_vars
  /\ [](\A p \in Workers :
         /\ inv[p].pc \notin {"idle", "check", "add"} =>
              inv[p].update_id \in processed_updates
         /\ (inv[p].serial = 1 /\ received = 1 /\ Aborted(p)) =>
              /\ user_sender_names = Put([c \in {} |-> <<>>], 1, <<"alice">>)
              /\ processed_updates = {PriorId, PriorId + 1}
         /\ inv[p].serial >= 2 =>
              /\ ~inv[p].dup
              /\ Busy(p) => ENABLED Step(p)
              /\ inv[p].site \in {"none", "start", "ack", "usage"}
              /\ inv[p].site = "start" <=> (inv[p].pc \in {"send", "pop", "done"}
                                            /\ inv[p].text = START)
              /\ (inv[p].pc = "done" /\ inv[p].result = "ok") =>
                   /\ inv[p].resp = "OK"
                   /\ Mine(p) = NormalReply(inv[p]))

\* Request 1 failed in the save of its first email, sent its error message
\* and returned; request 2, "/start" in the same chat, arrived after that,
\* was answered with the welcome and cleared the session; request 3 then
\* stored "bob" for the chat.
C11_Witness ==
  /\ log[1] = <<Entry(0, "selected", 0, <<"alice">>),
                Entry(1, "suggestion", 1, <<>>),
                Entry(1, "error", 0, <<"save">>),
                Entry(2, "welcome", 0, <<>>),
                Entry(3, "selected", 0, <<"bob">>)>>
  /\ processed_updates = {PriorId, PriorId + 1, PriorId + 2, PriorId + 3}
  /\ 1 \in DOMAIN user_sender_names /\ user_sender_names[1] = <<"bob">>
  /\ \E p \in Workers : /\ inv[p].serial = 3 /\ inv[p].pc = "done"
                         /\ inv[p].alone /\ inv[p].resp = "OK"

\* ------------------------------------- C20: requests during a run
\* The request of worker p is a /checkemails run between two emails or
\* inside the handling of one.
MidRun(p) == InPipeline(inv[p]) /\ inv[p].emails >= 1

\* C20: while a /checkemails run of a chat is between line 166 and its
\* return, a request for the same chat on another worker can always take
\* its next step; its /start pop leaves the chat without sender and its
\* store leaves its own text as the sender; no step of anyone changes the
\* sender the run read at line 166 or the number of emails it fetched, and
\* steps of other requests leave the run where it is; a run that delivered
\* "All emails processed." has analysed, delivered and persisted each of
\* the emails it fetched, in order, whatever the session is by then.
C20_NotBlocked ==
  /\ [](\A p, q \in Workers :
         (p # q /\ InPipeline(inv[p]) /\ Busy(q)
            /\ inv[q].chat_id = inv[p].chat_id) => ENABLED Step(q))
  /\ [][\A p, q \in Workers :
          (p # q /\ InPipeline(inv[p]) /\ StepOf(q)
             /\ inv[q].chat_id = inv[p].chat_id) =>
            /\ inv'[p] = inv[p]
            /\ inv[q].pc = "pop" =>
                 inv[q].chat_id \notin DOMAIN user_sender_names'
            /\ inv[q].pc = "store" =>
                 /\ inv[q].chat_id \in DOMAIN user_sender_names'
                 /\ user_sender_names'[inv[q].chat_id] = inv[q].text]_vars
  /\ [][\A p \in Workers :
          (InPipeline(inv[p]) /\ inv'[p].serial = inv[p].serial) =>
            /\ inv'[p].sender_name = inv[p].sender_name
            /\ MidRun(p) => inv'[p].emails = inv[p].emails]_vars
  /\ [](\A p \in Workers :
         (inv[p].pc = "done" /\ inv[p].site = "pipe_done" /\ inv[p].result = "ok") =>
           /\ inv[p].emails >= 1
           /\ Mine(p) = PipelineLog(inv[p].serial, inv[p].emails)
                          \o <<Entry(inv[p].serial, "allprocessed", 0, <<>>)>>)

\* The run of request 1 read "alice" and fetched three emails; while it
\* worked on them, request 2 ("/start") cleared the chat's sender and
\* request 3 stored "bob"; the run went on to "All emails processed.".
C20_Witness ==
  /\ log[1] = <<Entry(0, "selected", 0, <<"alice">>),
                Entry(1, "suggestion", 1, <<>>),
                Entry(1, "persist", 1, <<>>),
                Entry(2, "welcome", 0, <<>>),
                Entry(1, "suggestion", 2, <<>>),
                Entry(1, "persist", 2, <<>>),
                Entry(3, "selected", 0, <<"bob">>),
                Entry(1, "suggestion", 3, <<>>),
                Entry(1, "persist", 3, <<>>),
                Entry(1, "allprocessed", 0, <<>>)>>
  /\ 1 \in DOMAIN user_sender_names /\ user_sender_names[1] = <<"bob">>
  /\ \E p \in Workers : /\ inv[p].serial = 1 /\ inv[p].pc = "done"
                         /\ inv[p].site = "pipe_done" /\ inv[p].resp = "OK"
                         /\ inv[p].sender_name = <<"alice">>
                         /\ inv[p].emails = 3
====
